---- MODULE Spec2Model ----
(***************************************************************************)
(* Model of static/app/utils/formatters.tsx: the duration, clock, number   *)
(* abbreviation and percentage formatters.                                  *)
(*                                                                          *)
(* A JavaScript string is a sequence of one-character strings, so that      *)
(* split, slice, trim and Number() are computed on the characters.  A       *)
(* JavaScript number is an integer of the unit named at each use; NaN is a  *)
(* separate value.  Every function is a call of a small harness: the        *)
(* caller picks a function and its arguments (Init), the call returns       *)
(* (one action per exported function), and the caller may feed the result   *)
(* to the inverse function or repeat the call on the negated input.         *)
(***************************************************************************)
EXTENDS Integers, Sequences, FiniteSets

VARIABLES fn, args, pc, out, prev

vars == <<fn, args, pc, out, prev>>

\* No earlier call has been recorded.
NoCall == [fn |-> "none"]

-----------------------------------------------------------------------------
(* JavaScript primitives used by the formatters                             *)

Abs(n) == IF n < 0 THEN -n ELSE n

DigitChars == <<"0", "1", "2", "3", "4", "5", "6", "7", "8", "9">>

IsDigit(c) == \E d \in 1..10 : DigitChars[d] = c

DigitValue(c) == (CHOOSE d \in 1..10 : DigitChars[d] = c) - 1

RECURSIVE NatToString(_)
\* String(n) of a non-negative integer.
NatToString(n) ==
  IF n < 10 THEN <<DigitChars[n + 1]>>
  ELSE NatToString(n \div 10) \o <<DigitChars[(n % 10) + 1]>>

\* String(n) / `${n}` of an integer.
String(n) == IF n < 0 THEN <<"-">> \o NatToString(-n) ELSE NatToString(n)

RECURSIVE DigitsToNat(_)
DigitsToNat(s) ==
  IF s = <<>> THEN 0
  ELSE 10 * DigitsToNat(SubSeq(s, 1, Len(s) - 1)) + DigitValue(s[Len(s)])

\* undefined, as the second element of a destructured one-element array.
undefined == <<"undefined">>

\* Number(x) on a string of the model's alphabet: the empty string is 0, a
\* string of digits is its decimal value, anything else (undefined too) is NaN.
Number(s) ==
  IF s = undefined THEN [nan |-> TRUE, val |-> 0]
  ELSE IF \A i \in 1..Len(s) : IsDigit(s[i]) THEN [nan |-> FALSE, val |-> DigitsToNat(s)]
  ELSE [nan |-> TRUE, val |-> 0]

\* Number(x) || 0
NumberOrZero(s) == IF Number(s).nan THEN 0 ELSE Number(s).val

RECURSIVE split(_, _)
\* s.split(sep) for a one-character separator.
split(s, sep) ==
  IF \A i \in 1..Len(s) : s[i] # sep THEN <<s>>
  ELSE LET i == CHOOSE k \in 1..Len(s) : s[k] = sep /\ \A j \in 1..(k - 1) : s[j] # sep
       IN  <<SubSeq(s, 1, i - 1)>> \o split(SubSeq(s, i + 1, Len(s)), sep)

RECURSIVE join(_, _)
\* parts.join(sep)
join(parts, sep) ==
  IF parts = <<>> THEN <<>>
  ELSE IF Len(parts) = 1 THEN parts[1]
  ELSE parts[1] \o <<sep>> \o join(Tail(parts), sep)

\* a.slice(-n): the last n elements, the whole of a when it has fewer.
sliceLast(a, n) ==
  IF n >= Len(a) THEN a ELSE SubSeq(a, Len(a) - n + 1, Len(a))

-----------------------------------------------------------------------------
(* Time units, in milliseconds                                              *)

WEEK == 604800000

DAY == 86400000

HOUR == 3600000

MINUTE == 60000

SECOND == 1000

\* MONTH / 1000: MONTH = 2629800000 is used only divided by 1000.
MONTH_SECONDS == 2629800

\* Math.floor / Math.ceil of msValue / time by the sign of msValue, and the
\* remainder with the sign of the dividend (JavaScript %).
divideBy(msValue, time) ==
  [quotient  |-> IF msValue < 0 THEN -((-msValue) \div time) ELSE msValue \div time,
   remainder |-> IF msValue < 0 THEN -((-msValue) % time) ELSE msValue % time]

-----------------------------------------------------------------------------
(* formatSecondsToClock and parseClockToSeconds                             *)

\* Mutant of fill: the zero is never prepended.
fill_noPad(num) == String(num)

fill(num) == IF num < 10 THEN <<"0">> \o String(num) ELSE String(num)

\* formatSecondsToClock(ms / 1000, {padAll}); the argument is given in
\* milliseconds, so that round(Math.abs(seconds * 1000)) is Abs(ms).
formatSecondsToClock(ms, padAll) ==
  IF ms = 0 THEN (IF padAll THEN <<"0", "0", ":", "0", "0">> ELSE <<"0", ":", "0", "0">>)
  ELSE
    LET absMSValue == Abs(ms)
        h == divideBy(absMSValue, HOUR)
        m == divideBy(h.remainder, MINUTE)
        s == divideBy(m.remainder, SECOND)
        hours == h.quotient
        minutes == m.quotient
        secs == s.quotient
        milliseconds == s.remainder
        parts == IF hours # 0
                 THEN <<IF padAll THEN fill(hours) ELSE String(hours), fill(minutes), fill(secs)>>
                 ELSE <<IF padAll THEN fill(minutes) ELSE String(minutes), fill(secs)>>
        msStr == sliceLast(<<"0", "0", "0">> \o String(milliseconds), 3)
    IN  IF milliseconds # 0 THEN join(parts, ":") \o <<".">> \o msStr ELSE join(parts, ":")

\* [MONTH, WEEK, DAY, HOUR, MINUTE, SECOND], each divided by 1000.
progressionSeconds ==
  <<MONTH_SECONDS, WEEK \div 1000, DAY \div 1000, HOUR \div 1000, MINUTE \div 1000, SECOND \div 1000>>

NaN == [nan |-> TRUE, seconds |-> 0, ms |-> 0]

RECURSIVE clockLoop(_, _, _, _)
\* The for loop of parseClockToSeconds from index i on: seconds is the sum so
\* far, or NaN.  progression[i] is undefined beyond the slice, and
\* num * (undefined / 1000) is NaN whatever num is.
clockLoop(parts, progression, i, seconds) ==
  IF i > Len(parts) THEN seconds
  ELSE LET num == NumberOrZero(parts[i])
       IN  IF i > Len(progression) \/ seconds.nan
           THEN clockLoop(parts, progression, i + 1, NaN)
           ELSE clockLoop(parts, progression, i + 1,
                          [seconds EXCEPT !.seconds = @ + num * progression[i]])

\* Mutant of parseClockToSeconds: the progression is sliced from the front
\* (slice(0, n)), so the parts are read as months, weeks, days.
parseClockToSeconds_sliceFirst(clock) ==
  LET pieces == split(clock, ".")
      rest == pieces[1]
      milliseconds == IF Len(pieces) >= 2 THEN pieces[2] ELSE undefined
      parts == split(rest, ":")
      progression == SubSeq(progressionSeconds, 1,
                            IF Len(parts) > 6 THEN 6 ELSE Len(parts))
      seconds == clockLoop(parts, progression, 1, [nan |-> FALSE, seconds |-> 0, ms |-> 0])
      ms == NumberOrZero(milliseconds)
  IN  IF seconds.nan THEN NaN ELSE [seconds EXCEPT !.ms = ms]

\* parseClockToSeconds(clock): the number seconds + ms / 1000, kept as the
\* pair (seconds, ms), or NaN.
parseClockToSeconds(clock) ==
  LET pieces == split(clock, ".")
      rest == pieces[1]
      milliseconds == IF Len(pieces) >= 2 THEN pieces[2] ELSE undefined
      parts == split(rest, ":")
      progression == sliceLast(progressionSeconds, Len(parts))
      seconds == clockLoop(parts, progression, 1, [nan |-> FALSE, seconds |-> 0, ms |-> 0])
      ms == NumberOrZero(milliseconds)
  IN  IF seconds.nan THEN NaN ELSE [seconds EXCEPT !.ms = ms]

-----------------------------------------------------------------------------
(* Inputs of the clock functions                                            *)

MaxHours == 101

MaxParts == 7

ClockFields == {0, 5, 9, 10, 15, 59}

ClockMillis == {0, 7, 250}

ClockMs ==
  {h * HOUR + m * MINUTE + s * SECOND + f :
     h \in 0..MaxHours, m \in ClockFields, s \in ClockFields, f \in ClockMillis}

PartTokens == {<<"2">>, <<"0", "5">>, <<"x">>}

FractionTokens == {undefined, <<"2", "5", "0">>, <<"x">>}

RECURSIVE PartLists(_)
PartLists(n) ==
  IF n = 0 THEN {<<>>}
  ELSE {<<p>> \o l : p \in PartTokens, l \in PartLists(n - 1)}

ClockStrings ==
  {IF f = undefined THEN join(l, ":") ELSE join(l, ":") \o <<".">> \o f :
     l \in UNION {PartLists(n) : n \in 1..MaxParts}, f \in FractionTokens}

InitClock ==
  /\ pc = "call"
  /\ out = <<>>
  /\ prev = NoCall
  /\ \/ /\ fn = "formatSecondsToClock"
        /\ args \in [ms : ClockMs \cup {-ms : ms \in ClockMs}, padAll : BOOLEAN]
     \/ /\ fn = "parseClockToSeconds"
        /\ args \in [clock : ClockStrings]

FormatSecondsToClock ==
  /\ pc = "call"
  /\ fn = "formatSecondsToClock"
  /\ out' = formatSecondsToClock(args.ms, args.padAll)
  /\ pc' = "returned"
  /\ UNCHANGED <<fn, args, prev>>

ParseClockToSeconds ==
  /\ pc = "call"
  /\ fn = "parseClockToSeconds"
  /\ out' = parseClockToSeconds(args.clock)
  /\ pc' = "returned"
  /\ UNCHANGED <<fn, args, prev>>

\* The caller hands the clock string it was given to parseClockToSeconds.
ParseFormatted ==
  /\ pc = "returned"
  /\ fn = "formatSecondsToClock"
  /\ prev' = [fn |-> fn, args |-> args, out |-> out]
  /\ fn' = "parseClockToSeconds"
  /\ args' = [clock |-> out]
  /\ pc' = "call"
  /\ out' = <<>>

NextClock == FormatSecondsToClock \/ ParseClockToSeconds \/ ParseFormatted

SpecClock == InitClock /\ [][NextClock]_vars

-----------------------------------------------------------------------------
(* Claims about the clock functions                                         *)

Returned(f) == pc = "returned" /\ fn = f

\* A returned parseClockToSeconds call whose argument was the result of
\* formatSecondsToClock on a whole, non-negative number of seconds.
ParsedBack ==
  /\ Returned("parseClockToSeconds")
  /\ prev.fn = "formatSecondsToClock"
  /\ prev.args.ms >= 0
  /\ prev.args.ms % SECOND = 0

\* C1: for every non-negative whole number of seconds s, and both values of
\* padAll, parseClockToSeconds(formatSecondsToClock(s)) is s.
C1_RoundTrip ==
  ParsedBack =>
    /\ ~out.nan
    /\ out.ms = 0
    /\ out.seconds = prev.args.ms \div SECOND

\* C1 witness: a round trip of 100 hours or more, hours not padded.
C1_Witness ==
  /\ ParsedBack
  /\ ~prev.args.padAll
  /\ prev.args.ms >= 100 * HOUR
  /\ out = [nan |-> FALSE, seconds |-> prev.args.ms \div SECOND, ms |-> 0]

TwoDigits(n) == <<DigitChars[(n \div 10) + 1], DigitChars[(n % 10) + 1]>>

ClockHoursOf(ms) == Abs(ms) \div HOUR

ClockMinutesOf(ms) == (Abs(ms) % HOUR) \div MINUTE

ClockSecondsOf(ms) == (Abs(ms) % MINUTE) \div SECOND

\* C4 as stated: with the default options an hour count of 1 to 9 is a single
\* unpadded digit (formatSecondsToClock(3915) = "1:05:15"),
\* formatSecondsToClock(0) = "00:00", formatSecondsToClock(5, {padAll: false}) = "0:05".
C4_Original ==
  Returned("formatSecondsToClock") =>
    /\ (args.padAll /\ ClockHoursOf(args.ms) \in 1..9) =>
         SubSeq(out, 1, 7) = <<DigitChars[ClockHoursOf(args.ms) + 1], ":">>
                               \o TwoDigits(ClockMinutesOf(args.ms)) \o <<":">>
                               \o TwoDigits(ClockSecondsOf(args.ms))
    /\ (args.padAll /\ args.ms = 3915 * SECOND) => out = <<"1", ":", "0", "5", ":", "1", "5">>
    /\ (args.padAll /\ args.ms = 0) => out = <<"0", "0", ":", "0", "0">>
    /\ (~args.padAll /\ args.ms = 5 * SECOND) => out = <<"0", ":", "0", "5">>

\* C4 amended: with the default options (padAll = true) an hour count of 1 to 9
\* is zero-padded to two digits (formatSecondsToClock(3915) = "01:05:15"); the
\* single unpadded hour digit is what padAll = false gives;
\* formatSecondsToClock(0) = "00:00", formatSecondsToClock(5, {padAll: false}) = "0:05".
C4_PaddedHours ==
  Returned("formatSecondsToClock") =>
    /\ (args.padAll /\ ClockHoursOf(args.ms) \in 1..9) =>
         SubSeq(out, 1, 8) = <<"0", DigitChars[ClockHoursOf(args.ms) + 1], ":">>
                               \o TwoDigits(ClockMinutesOf(args.ms)) \o <<":">>
                               \o TwoDigits(ClockSecondsOf(args.ms))
    /\ (~args.padAll /\ ClockHoursOf(args.ms) \in 1..9) =>
         SubSeq(out, 1, 7) = <<DigitChars[ClockHoursOf(args.ms) + 1], ":">>
                               \o TwoDigits(ClockMinutesOf(args.ms)) \o <<":">>
                               \o TwoDigits(ClockSecondsOf(args.ms))
    /\ (args.padAll /\ args.ms = 3915 * SECOND) =>
         out = <<"0", "1", ":", "0", "5", ":", "1", "5">>
    /\ (args.padAll /\ args.ms = 0) => out = <<"0", "0", ":", "0", "0">>
    /\ (~args.padAll /\ args.ms = 5 * SECOND) => out = <<"0", ":", "0", "5">>

\* C4 witness: formatSecondsToClock(3915) has returned under the default options.
C4_Witness ==
  /\ Returned("formatSecondsToClock")
  /\ args = [ms |-> 3915 * SECOND, padAll |-> TRUE]
  /\ out = <<"0", "1", ":", "0", "5", ":", "1", "5">>

ClockRest(clock) == split(clock, ".")[1]

ClockParts(clock) == split(ClockRest(clock), ":")

ClockFraction(clock) ==
  IF Len(split(clock, ".")) >= 2 THEN split(clock, ".")[2] ELSE undefined

\* The value hours*3600 + minutes*60 + seconds of 1 to 3 parts, assigned
\* right to left, a non-numeric part counting 0.
RightToLeftSeconds(parts) ==
  LET n == Len(parts)
      part(k) == IF k <= n THEN NumberOrZero(parts[n - k + 1]) ELSE 0
  IN  part(3) * 3600 + part(2) * 60 + part(1)

\* C6: parseClockToSeconds returns a finite number, never NaN, for every
\* input string, whatever the number of ':'-separated parts; a non-numeric
\* part contributes 0; 1 to 3 parts are seconds, minutes, hours from the right
\* and the result is hours*3600 + minutes*60 + seconds + fraction/1000.
C6_TotalAndLenient ==
  Returned("parseClockToSeconds") =>
    /\ ~out.nan
    /\ Len(ClockParts(args.clock)) <= 3 =>
         /\ out.seconds = RightToLeftSeconds(ClockParts(args.clock))
         /\ out.ms = NumberOrZero(ClockFraction(args.clock))

\* What of C6 the code does satisfy: up to 6 parts the result is a number.
C6_UpToSixParts ==
  (Returned("parseClockToSeconds") /\ Len(ClockParts(args.clock)) <= 6) =>
    /\ ~out.nan
    /\ Len(ClockParts(args.clock)) <= 3 =>
         /\ out.seconds = RightToLeftSeconds(ClockParts(args.clock))
         /\ out.ms = NumberOrZero(ClockFraction(args.clock))

-----------------------------------------------------------------------------
(* getExactDuration                                                         *)

\* t(msgid): the text lookup, which returns the English text untranslated.
t(text) == text

\* tn(singular, plural, n): the plural lookup, English rule (plural unless n is 1).
tn(singular, plural, n) == IF n = 1 THEN singular ELSE plural

\* The five branches of convertDuration above its millisecond tail, in
\* order: the divisor, the abbreviation, the words given to tn, and the
\* precision token whose minSuffix the branch tests for.
DurationUnits ==
  <<[time |-> WEEK, abbr |-> <<"w", "k">>, token |-> "weeks",
     singular |-> <<"w", "e", "e", "k">>, plural |-> <<"w", "e", "e", "k", "s">>],
    [time |-> DAY, abbr |-> <<"d">>, token |-> "days",
     singular |-> <<"d", "a", "y">>, plural |-> <<"d", "a", "y", "s">>],
    [time |-> HOUR, abbr |-> <<"h", "r">>, token |-> "hours",
     singular |-> <<"h", "o", "u", "r">>, plural |-> <<"h", "o", "u", "r", "s">>],
    [time |-> MINUTE, abbr |-> <<"m", "i", "n">>, token |-> "minutes",
     singular |-> <<"m", "i", "n", "u", "t", "e">>,
     plural |-> <<"m", "i", "n", "u", "t", "e", "s">>],
    [time |-> SECOND, abbr |-> <<"s">>, token |-> "seconds",
     singular |-> <<"s", "e", "c", "o", "n", "d">>,
     plural |-> <<"s", "e", "c", "o", "n", "d", "s">>]>>

MillisecondWord == <<"m", "i", "l", "l", "i", "s", "e", "c", "o", "n", "d">>

\* keyof typeof SUFFIX_ABBR
PrecisionTokens ==
  {"years", "weeks", "days", "hours", "minutes", "seconds", "milliseconds"}

\* The characters of a precision token, as in ` ${precision}`.
PrecisionChars(precision) ==
  CASE precision = "years" -> <<"y", "e", "a", "r", "s">>
    [] precision = "milliseconds" -> MillisecondWord \o <<"s">>
    [] OTHER -> LET i == CHOOSE k \in 1..5 : DurationUnits[k].token = precision
                IN  DurationUnits[i].plural

SUFFIX_ABBR(precision) ==
  CASE precision = "years" -> t(<<"y", "r">>)
    [] precision = "milliseconds" -> t(<<"m", "s">>)
    [] OTHER -> LET i == CHOOSE k \in 1..5 : DurationUnits[k].token = precision
                IN  t(DurationUnits[i].abbr)

\* The call stack is exhausted: the engine throws RangeError.
RangeError == [threw |-> TRUE, str |-> <<>>, segs |-> <<>>]

MaxCallStack == 12

\* The condition of branch i: value >= UNIT || (value && minSuffix === ' units')
BranchTaken(i, value, minSuffix) ==
  \/ value >= DurationUnits[i].time
  \/ value # 0 /\ minSuffix = <<" ">> \o DurationUnits[i].plural

RECURSIVE convertDuration(_, _, _, _, _)
\* convertDuration(secs, abbr) with msValue = round(secs * 1000) and
\* value = round(Math.abs(secs * 1000)), at call depth `depth`.  The result
\* is the string returned and, beside it, the (quotient, unit) pairs it was
\* built from; or RangeError.
convertDuration(msValue, value, abbr, minSuffix, depth) ==
  IF depth > MaxCallStack THEN RangeError
  ELSE IF \E i \in 1..5 : BranchTaken(i, value, minSuffix)
  THEN
    LET i == CHOOSE k \in 1..5 :
               BranchTaken(k, value, minSuffix)
               /\ \A j \in 1..(k - 1) : ~BranchTaken(j, value, minSuffix)
        u == DurationUnits[i]
        d == divideBy(msValue, u.time)
        suffix == IF abbr THEN t(u.abbr) ELSE <<" ">> \o tn(u.singular, u.plural, d.quotient)
        head == String(d.quotient) \o suffix \o <<" ">>
        seg == [unit |-> u.token, time |-> u.time, msValue |-> msValue,
                quotient |-> d.quotient, remainder |-> d.remainder]
    IN  IF minSuffix = suffix
        THEN [threw |-> FALSE, str |-> head, segs |-> <<seg>>]
        ELSE LET rest == convertDuration(d.remainder, Abs(d.remainder), abbr, minSuffix, depth + 1)
             IN  IF rest.threw THEN RangeError
                 ELSE [threw |-> FALSE, str |-> head \o rest.str, segs |-> <<seg>> \o rest.segs]
  ELSE IF value = 0 THEN [threw |-> FALSE, str |-> <<>>, segs |-> <<>>]
  ELSE
    LET suffix == IF abbr THEN t(<<"m", "s">>)
                  ELSE <<" ">> \o tn(MillisecondWord, MillisecondWord \o <<"s">>, value)
    IN  [threw |-> FALSE, str |-> String(msValue) \o suffix,
         segs |-> <<[unit |-> "milliseconds", time |-> 1, msValue |-> msValue,
                     quotient |-> msValue, remainder |-> 0]>>]

RECURSIVE trim(_)
\* s.trim() on strings whose only whitespace is the space.
trim(s) ==
  IF s = <<>> THEN s
  ELSE IF s[1] = " " THEN trim(Tail(s))
  ELSE IF s[Len(s)] = " " THEN trim(SubSeq(s, 1, Len(s) - 1))
  ELSE s

\* round(secs * 1000) where secs * 1000 is ms, or ms + 1/2 when half:
\* Math.round takes a half towards +Infinity.
roundMs(ms, half) == IF half THEN ms + 1 ELSE ms

\* round(Math.abs(secs * 1000)) of the same argument.
roundAbsMs(ms, half) == IF ms >= 0 THEN roundMs(ms, half) ELSE -ms

\* getExactDuration(seconds, abbreviation, precision) with
\* seconds * 1000 = ms (+ 1/2 when half).
getExactDuration(ms, half, abbreviation, precision) ==
  LET minSuffix == <<" ">> \o PrecisionChars(precision)
      r == convertDuration(roundMs(ms, half), roundAbsMs(ms, half), abbreviation, minSuffix, 1)
      result == trim(r.str)
  IN  IF r.threw THEN RangeError
      ELSE IF Len(result) # 0 THEN [r EXCEPT !.str = result]
      ELSE [r EXCEPT !.str = <<"0">> \o (IF abbreviation THEN SUFFIX_ABBR(precision) ELSE minSuffix)]

-----------------------------------------------------------------------------
(* Inputs of getExactDuration                                               *)

MaxCount == 2

DurationMs ==
  {w * WEEK + d * DAY + h * HOUR + m * MINUTE + s * SECOND + f :
     w \in 0..MaxCount, d \in 0..MaxCount, h \in 0..MaxCount,
     m \in 0..MaxCount, s \in 0..MaxCount, f \in 0..MaxCount}
  \cup {100, 1100, 541 * SECOND, 3915 * SECOND}

InitDuration ==
  /\ pc = "call"
  /\ out = <<>>
  /\ prev = NoCall
  /\ fn = "getExactDuration"
  /\ args \in [ms : DurationMs, half : BOOLEAN, abbreviation : BOOLEAN,
               precision : PrecisionTokens]

GetExactDuration ==
  /\ pc = "call"
  /\ fn = "getExactDuration"
  /\ out' = getExactDuration(args.ms, args.half, args.abbreviation, args.precision)
  /\ pc' = "returned"
  /\ UNCHANGED <<fn, args, prev>>

\* The caller repeats the call on the negated duration: -(ms + 1/2) is
\* (-ms - 1) + 1/2.
NegateDuration ==
  /\ pc = "returned"
  /\ fn = "getExactDuration"
  /\ prev = NoCall
  /\ args.ms # 0 \/ args.half
  /\ prev' = [fn |-> fn, args |-> args, out |-> out]
  /\ args' = [args EXCEPT !.ms = IF args.half THEN -args.ms - 1 ELSE -args.ms]
  /\ pc' = "call"
  /\ out' = <<>>
  /\ UNCHANGED fn

NextDuration == GetExactDuration \/ NegateDuration

SpecDuration == InitDuration /\ [][NextDuration]_vars

-----------------------------------------------------------------------------
(* Claims about getExactDuration                                            *)

\* The units from coarsest to finest; a greater rank is a finer unit.
UnitRank(unit) ==
  CASE unit = "years" -> 0
    [] unit = "weeks" -> 1
    [] unit = "days" -> 2
    [] unit = "hours" -> 3
    [] unit = "minutes" -> 4
    [] unit = "seconds" -> 5
    [] unit = "milliseconds" -> 6

\* The call's duration is not 0 (before rounding).
NonzeroDuration(a) == a.ms # 0 \/ a.half

\* C2: for every nonzero duration, abbreviation flag and precision token in
\* {weeks, days, hours, minutes, seconds, milliseconds}, the decomposition
\* stops at the token's unit: the call returns a result with no segment of a
\* finer unit and at most one segment of the token's unit.
C2_TruncatesAtPrecision ==
  (Returned("getExactDuration") /\ NonzeroDuration(args) /\ args.precision # "years") =>
    /\ ~out.threw
    /\ \A i \in 1..Len(out.segs) : UnitRank(out.segs[i].unit) <= UnitRank(args.precision)
    /\ Cardinality({i \in 1..Len(out.segs) : out.segs[i].unit = args.precision}) <= 1

\* C3: getExactDuration never returns an empty string: an input that rounds
\* to 0 milliseconds gives "0" and the token's abbreviation, or "0 " and the
\* token's long name; any other input gives a non-empty result with no
\* leading or trailing whitespace.
C3_NeverEmpty ==
  Returned("getExactDuration") =>
    /\ ~out.threw
    /\ roundMs(args.ms, args.half) = 0 =>
         out.str = <<"0">> \o (IF args.abbreviation THEN SUFFIX_ABBR(args.precision)
                               ELSE <<" ">> \o PrecisionChars(args.precision))
    /\ roundMs(args.ms, args.half) # 0 =>
         /\ out.str # <<>>
         /\ out.str[1] # " "
         /\ out.str[Len(out.str)] # " "

AbsQuotients(segs) == [i \in 1..Len(segs) |-> Abs(segs[i].quotient)]

\* C8: on a negative duration every step has quotient*unit + remainder =
\* value with |remainder| < unit and neither positive; the sign is printed
\* inside the quotients (every "-" is followed by a digit, one per negative
\* quotient); and the absolute quotients of -s are those of s.
C8_NegativeDurations ==
  (Returned("getExactDuration") /\ ~out.threw /\ (args.ms < 0)) =>
    /\ \A i \in 1..Len(out.segs) :
         LET g == out.segs[i]
         IN  /\ g.quotient * g.time + g.remainder = g.msValue
             /\ Abs(g.remainder) < g.time
             /\ g.quotient <= 0
             /\ g.remainder <= 0
    /\ \A i \in 1..Len(out.str) :
         out.str[i] = "-" => (i < Len(out.str) /\ IsDigit(out.str[i + 1]))
    /\ Cardinality({i \in 1..Len(out.str) : out.str[i] = "-"})
         = Cardinality({i \in 1..Len(out.segs) : out.segs[i].quotient < 0})
    /\ (prev # NoCall /\ ~prev.out.threw) =>
         AbsQuotients(out.segs) = AbsQuotients(prev.out.segs)

\* C8 without its last clause: the division identity and the printed signs.
C8_StepsOnly ==
  (Returned("getExactDuration") /\ ~out.threw /\ (args.ms < 0)) =>
    /\ \A i \in 1..Len(out.segs) :
         LET g == out.segs[i]
         IN  /\ g.quotient * g.time + g.remainder = g.msValue
             /\ Abs(g.remainder) < g.time
             /\ g.quotient <= 0
             /\ g.remainder <= 0
    /\ \A i \in 1..Len(out.str) :
         out.str[i] = "-" => (i < Len(out.str) /\ IsDigit(out.str[i + 1]))
    /\ Cardinality({i \in 1..Len(out.str) : out.str[i] = "-"})
         = Cardinality({i \in 1..Len(out.segs) : out.segs[i].quotient < 0})

\* C8's last clause on whole milliseconds at the default precision.
C8_MirrorWholeMsDefault ==
  (Returned("getExactDuration") /\ ~out.threw /\ args.ms < 0 /\ ~args.half
     /\ args.precision = "milliseconds" /\ prev # NoCall /\ ~prev.out.threw) =>
    AbsQuotients(out.segs) = AbsQuotients(prev.out.segs)

-----------------------------------------------------------------------------
(* formatFloat, formatAbbreviatedNumber and the dynamic-precision variant   *)

\* A decimal number is kept as [n, places]: the value n / 10^places.

RECURSIVE NumDigits(_)
\* The number of decimal digits of a non-negative integer.
NumDigits(n) == IF n < 10 THEN 1 ELSE 1 + NumDigits(n \div 10)

RECURSIVE groupThousands(_)
\* The integer part as the en-US locale prints it: groups of three, commas.
groupThousands(n) ==
  IF n < 1000 THEN String(n)
  ELSE groupThousands(n \div 1000) \o <<",">>
         \o sliceLast(<<"0", "0">> \o String(n % 1000), 3)

RECURSIVE stripZeros(_)
\* A decimal without its trailing fraction zeros.
stripZeros(x) ==
  IF x.places > 0 /\ x.n % 10 = 0 THEN stripZeros([n |-> x.n \div 10, places |-> x.places - 1])
  ELSE x

\* The digits of a non-negative decimal: grouped integer part, '.', fraction.
decimalString(x, grouped) ==
  LET y == stripZeros(x)
      whole == y.n \div (10 ^ y.places)
      frac == y.n % (10 ^ y.places)
      wholeStr == IF grouped THEN groupThousands(whole) ELSE String(whole)
  IN  IF y.places = 0 THEN wholeStr
      ELSE wholeStr \o <<".">>
             \o sliceLast([i \in 1..y.places |-> "0"] \o String(frac), y.places)

\* A non-negative decimal rounded to `digits` significant digits, a half
\* rounding up (toPrecision, and Intl's default rounding).
roundSignificant(x, digits) ==
  LET nd == NumDigits(x.n)
      drop == nd - digits
  IN  IF x.n = 0 \/ drop <= 0 THEN x
      ELSE [x EXCEPT !.n = ((x.n + 5 * 10 ^ (drop - 1)) \div (10 ^ drop)) * (10 ^ drop)]

\* maximumSignificantDigits left out of the call (undefined).
undefinedDigits == 0

\* x.toLocaleString(undefined, {maximumSignificantDigits}) of a non-negative
\* decimal of at most 3 fraction digits, in the en-US locale.
toLocaleString(x, maximumSignificantDigits) ==
  IF maximumSignificantDigits = undefinedDigits THEN decimalString(x, TRUE)
  ELSE decimalString(roundSignificant(x, maximumSignificantDigits), TRUE)

\* parseFloat(n.toPrecision(digits)).toString() of a positive integer.
toPrecisionString(n, digits) ==
  decimalString(roundSignificant([n |-> n, places |-> 0], digits), FALSE)

\* formatFloat(num / 10^exp, places): multiply by 10^places and truncate; the
\* division is exact here, where the source's is a floating-point one.
formatFloat(num, exp, places) ==
  [n |-> IF places <= exp THEN num \div (10 ^ (exp - places)) ELSE num * 10 ^ (places - exp),
   places |-> places]

\* numberFormatSteps, each threshold as its power of ten.
numberFormatSteps ==
  <<[exp |-> 9, suffix |-> "b"], [exp |-> 6, suffix |-> "m"], [exp |-> 3, suffix |-> "k"]>>

RECURSIVE stepsLoop(_, _, _, _, _, _)
\* The for loop of formatAbbreviatedNumber from step i on, and the return
\* after it.
stepsLoop(i, number, prefix, numAbsValue, maximumSignificantDigits, includeDecimals) ==
  IF i > Len(numberFormatSteps)
  THEN (IF number < 0 THEN <<"-">> ELSE <<>>)
         \o toLocaleString([n |-> Abs(number), places |-> 0], maximumSignificantDigits)
  ELSE
    LET suffixNum == 10 ^ numberFormatSteps[i].exp
        suffix == <<numberFormatSteps[i].suffix>>
        shortValue == numAbsValue \div suffixNum
        fitsBound == numAbsValue % suffixNum = 0
        useShortValue == ~includeDecimals /\ (shortValue > 10 \/ fitsBound)
    IN  IF shortValue <= 0
        THEN stepsLoop(i + 1, number, prefix, numAbsValue, maximumSignificantDigits,
                       includeDecimals)
        ELSE IF useShortValue
        THEN (IF maximumSignificantDigits = undefinedDigits
              THEN prefix \o String(shortValue) \o suffix
              ELSE prefix \o toPrecisionString(shortValue, maximumSignificantDigits) \o suffix)
        ELSE prefix
               \o toLocaleString(
                    formatFloat(numAbsValue, numberFormatSteps[i].exp,
                                IF maximumSignificantDigits = undefinedDigits THEN 1
                                ELSE maximumSignificantDigits),
                    maximumSignificantDigits)
               \o suffix

\* Mutant of formatAbbreviatedNumber: Math.abs is left out, the magnitude
\* arithmetic runs on the signed number.
formatAbbreviatedNumber_noAbs(number, maximumSignificantDigits, includeDecimals) ==
  LET prefix == IF number < 0 THEN <<"-">> ELSE <<>>
      numAbsValue == number
  IN  stepsLoop(1, number, prefix, numAbsValue, maximumSignificantDigits, includeDecimals)

\* formatAbbreviatedNumber(number, maximumSignificantDigits, includeDecimals)
\* of an integer.
formatAbbreviatedNumber(number, maximumSignificantDigits, includeDecimals) ==
  LET prefix == IF number < 0 THEN <<"-">> ELSE <<>>
      numAbsValue == Abs(number)
  IN  stepsLoop(1, number, prefix, numAbsValue, maximumSignificantDigits, includeDecimals)

\* maximumSignificantDigits as formatAbbreviatedNumberWithDynamicPrecision
\* derives it from a nonzero integer.
dynamicSignificantDigits(number) ==
  LET numOfDigits == NumDigits(Abs(number))
      maxStep == 10 ^ numberFormatSteps[1].exp
      numOfFormattedDigits ==
        IF number > maxStep THEN NumDigits(number \div maxStep) - 1
        ELSE IF numOfDigits % 3 = 0 THEN 3 ELSE numOfDigits % 3
  IN  numOfFormattedDigits + 2

formatAbbreviatedNumberWithDynamicPrecision(number) ==
  IF number = 0 THEN <<"0">>
  ELSE formatAbbreviatedNumber(number, dynamicSignificantDigits(number), TRUE)

-----------------------------------------------------------------------------
(* Inputs of the number abbreviator                                         *)

MaxMantissa == 12

NumberInputs ==
  {m * 10 ^ e + d : m \in 1..MaxMantissa, e \in 0..8, d \in {-1, 0, 1}}
  \cup {1234567890 \div 10 ^ e : e \in 0..9}
  \cup {999999999, 10 ^ 9, 10 ^ 9 + 1, 2 * 10 ^ 9}

InitNumber ==
  /\ pc = "call"
  /\ out = <<>>
  /\ prev = NoCall
  /\ \/ /\ fn = "formatAbbreviatedNumber"
        /\ args \in [number : NumberInputs,
                     maximumSignificantDigits : {undefinedDigits} \cup 1..6,
                     includeDecimals : BOOLEAN]
     \/ /\ fn = "formatAbbreviatedNumberWithDynamicPrecision"
        /\ args \in [number : NumberInputs]

FormatAbbreviatedNumber ==
  /\ pc = "call"
  /\ fn = "formatAbbreviatedNumber"
  /\ out' = formatAbbreviatedNumber(args.number, args.maximumSignificantDigits,
                                    args.includeDecimals)
  /\ pc' = "returned"
  /\ UNCHANGED <<fn, args, prev>>

FormatAbbreviatedNumberWithDynamicPrecision ==
  /\ pc = "call"
  /\ fn = "formatAbbreviatedNumberWithDynamicPrecision"
  /\ out' = formatAbbreviatedNumberWithDynamicPrecision(args.number)
  /\ pc' = "returned"
  /\ UNCHANGED <<fn, args, prev>>

\* The caller repeats the call on the negated number.
NegateNumber ==
  /\ pc = "returned"
  /\ fn \in {"formatAbbreviatedNumber", "formatAbbreviatedNumberWithDynamicPrecision"}
  /\ prev = NoCall
  /\ args.number # 0
  /\ prev' = [fn |-> fn, args |-> args, out |-> out]
  /\ args' = [args EXCEPT !.number = -args.number]
  /\ pc' = "call"
  /\ out' = <<>>
  /\ UNCHANGED fn

NextNumber ==
  FormatAbbreviatedNumber \/ FormatAbbreviatedNumberWithDynamicPrecision \/ NegateNumber

SpecNumber == InitNumber /\ [][NextNumber]_vars

-----------------------------------------------------------------------------
(* Claims about the number abbreviator                                      *)

\* The exponent of the largest threshold of numberFormatSteps not above v.
LargestStepExp(v) == IF v >= 10 ^ 9 THEN 9 ELSE IF v >= 10 ^ 6 THEN 6 ELSE 3

StepLetter(exp) == IF exp = 9 THEN "b" ELSE IF exp = 6 THEN "m" ELSE "k"

\* C5: without the significant-digit and decimal options, for |v| >= 1000 the
\* suffix is that of the largest threshold T <= |v|; when floor(|v|/T) > 10
\* or T divides |v| the result is sign, floor(|v|/T), suffix; and the result
\* for -v is "-" before the result for v.
C5_PlainAbbreviation ==
  (Returned("formatAbbreviatedNumber") /\ args.maximumSignificantDigits = undefinedDigits
     /\ ~args.includeDecimals /\ Abs(args.number) >= 1000) =>
    LET v == Abs(args.number)
        e == LargestStepExp(v)
        q == v \div (10 ^ e)
    IN  /\ out[Len(out)] = StepLetter(e)
        /\ (q > 10 \/ v % (10 ^ e) = 0) =>
             out = (IF args.number < 0 THEN <<"-">> ELSE <<>>) \o String(q) \o <<StepLetter(e)>>
        /\ prev # NoCall => out = <<"-">> \o prev.out

\* C5 witness: formatAbbreviatedNumber(-500000) has returned "-500k" after
\* formatAbbreviatedNumber(500000) returned "500k".
C5_Witness ==
  /\ Returned("formatAbbreviatedNumber")
  /\ args = [number |-> -500000, maximumSignificantDigits |-> undefinedDigits,
             includeDecimals |-> FALSE]
  /\ prev # NoCall
  /\ prev.out = <<"5", "0", "0", "k">>
  /\ out = <<"-", "5", "0", "0", "k">>

\* C9: formatAbbreviatedNumberWithDynamicPrecision derives the same
\* significant-digit budget for -v as for v, for every nonzero integer v, so
\* the result for -v is "-" before the result for v.
C9_SignSymmetric ==
  (Returned("formatAbbreviatedNumberWithDynamicPrecision") /\ prev # NoCall) =>
    /\ dynamicSignificantDigits(args.number) = dynamicSignificantDigits(prev.args.number)
    /\ out = <<"-">> \o prev.out

\* C9 up to the largest threshold, where the code is sign-symmetric.
C9_UpToMaxStep ==
  (Returned("formatAbbreviatedNumberWithDynamicPrecision") /\ prev # NoCall
     /\ Abs(args.number) <= 10 ^ 9) =>
    /\ dynamicSignificantDigits(args.number) = dynamicSignificantDigits(prev.args.number)
    /\ out = <<"-">> \o prev.out

\* The digits printed before the decimal point (or the suffix), commas skipped.
WholeDigits(str) ==
  LET body == IF str[1] = "-" THEN Tail(str) ELSE str
      stop == CHOOSE k \in 1..Len(body) :
                /\ ~(IsDigit(body[k]) \/ body[k] = ",")
                /\ \A j \in 1..(k - 1) : IsDigit(body[j]) \/ body[j] = ","
  IN  SelectSeq(SubSeq(body, 1, stop - 1), IsDigit)

\* C10: for 1000 <= |v| < 1,000,000,000, every maximumSignificantDigits
\* (undefined or 1..6) and either includeDecimals, the number printed before
\* the k or m suffix is at least 1 and below 1000.
C10_SuffixConsistent ==
  (Returned("formatAbbreviatedNumber") /\ Abs(args.number) >= 1000
     /\ Abs(args.number) < 10 ^ 9 /\ args.maximumSignificantDigits <= 6) =>
    /\ out[Len(out)] \in {"k", "m"}
    /\ DigitsToNat(WholeDigits(out)) >= 1
    /\ DigitsToNat(WholeDigits(out)) < 1000

-----------------------------------------------------------------------------
(* formatPercentage                                                         *)

\* value and minimumValue are counted in units of 1/100000, so that
\* value * 100 is the decimal [value, 3].
PercentScale == 3

\* round(x, places) of lodash on the decimal n / 10^PercentScale: Math.round
\* after shifting the decimal point, a half going towards +Infinity.  The
\* result is the integer r of the decimal r / 10^places.
round(n, places) ==
  IF places >= PercentScale THEN n * 10 ^ (places - PercentScale)
  ELSE LET q == 10 ^ (PercentScale - places)
       IN  (2 * n + q) \div (2 * q)

\* `${minimumValue * 100}`: the number as JavaScript prints it.
numberToString(n, places) ==
  (IF n < 0 THEN <<"-">> ELSE <<>>) \o decimalString([n |-> Abs(n), places |-> places], FALSE)

\* Mutant of formatPercentage: the floor is tested before the zero.
formatPercentage_floorFirst(value, places, minimumValue) ==
  IF Abs(value) <= minimumValue
  THEN <<"<">> \o numberToString(minimumValue, PercentScale) \o <<"%">>
  ELSE IF value = 0 THEN <<"0", "%">>
  ELSE LET r == round(value, places)
       IN  (IF value < 0 THEN <<"-">> ELSE <<>>)
             \o decimalString([n |-> Abs(r), places |-> places], TRUE) \o <<"%">>

\* formatPercentage(value, places, {minimumValue}); minimumValue is 0 when
\* the option is left out.
formatPercentage(value, places, minimumValue) ==
  IF value = 0 THEN <<"0", "%">>
  ELSE IF Abs(value) <= minimumValue
  THEN <<"<">> \o numberToString(minimumValue, PercentScale) \o <<"%">>
  ELSE LET r == round(value, places)
       IN  \* Math.round of a negative value above -1/2 is -0, printed "-0"
           (IF value < 0 THEN <<"-">> ELSE <<>>)
             \o decimalString([n |-> Abs(r), places |-> places], TRUE) \o <<"%">>

-----------------------------------------------------------------------------
(* Inputs of formatPercentage                                               *)

MaxPercentMantissa == 12

MaxPlaces == 3

PercentMagnitudes == {m * 10 ^ e : m \in 1..MaxPercentMantissa, e \in 0..5} \cup {1234567}

PercentValues == {0} \cup PercentMagnitudes \cup {-v : v \in PercentMagnitudes}

PercentFloors == {0, 50, 1000, 5000}

InitPercent ==
  /\ pc = "call"
  /\ out = <<>>
  /\ prev = NoCall
  /\ fn = "formatPercentage"
  /\ args \in [value : PercentValues, places : 0..MaxPlaces, minimumValue : PercentFloors]

FormatPercentage ==
  /\ pc = "call"
  /\ fn = "formatPercentage"
  /\ out' = formatPercentage(args.value, args.places, args.minimumValue)
  /\ pc' = "returned"
  /\ UNCHANGED <<fn, args, prev>>

NextPercent == FormatPercentage

SpecPercent == InitPercent /\ [][NextPercent]_vars

-----------------------------------------------------------------------------
(* Claims about formatPercentage                                            *)

\* The decimal a rendered number stands for, commas skipped: [n, places],
\* n the digits read as an integer.
ReadDecimal(str) ==
  LET pieces == split(str, ".")
      whole == SelectSeq(pieces[1], IsDigit)
      frac == IF Len(pieces) >= 2 THEN pieces[2] ELSE <<>>
  IN  [n |-> DigitsToNat(whole \o frac), places |-> Len(frac)]

\* The text between an optional sign and the final character.
UnsignedBody(str) ==
  SubSeq(str, IF str[1] = "-" THEN 2 ELSE 1, Len(str) - 1)

\* The rendered number is |value * 100| to within half a unit of the last
\* of `places` decimals.
WithinHalfUnit(str, value, places) ==
  LET x == ReadDecimal(UnsignedBody(str))
      cap == IF places > PercentScale THEN places ELSE PercentScale
      shown == x.n * 10 ^ (cap - x.places)
      exact == Abs(value) * 10 ^ (cap - PercentScale)
  IN  /\ x.places <= places
      /\ 2 * Abs(shown - exact) <= 10 ^ (cap - places)

\* C7: 0 renders as "0%" whatever the floor; a nonzero value of absolute
\* value <= the floor renders as "<", floor*100, "%" (0.005 with floor 0.01
\* is "<1%"); only a value of absolute value above the floor renders as a
\* rounded number and "%"; with the default floor 0 no nonzero value has "<".
C7_PercentageCases ==
  Returned("formatPercentage") =>
    /\ args.value = 0 => out = <<"0", "%">>
    /\ (args.value # 0 /\ Abs(args.value) <= args.minimumValue) =>
         out = <<"<">> \o numberToString(args.minimumValue, PercentScale) \o <<"%">>
    /\ (args.value = 500 /\ args.minimumValue = 1000) => out = <<"<", "1", "%">>
    /\ out[1] # "<" =>
         /\ args.value = 0 \/ Abs(args.value) > args.minimumValue
         /\ out[Len(out)] = "%"
         /\ \A i \in 1..(Len(out) - 1) : IsDigit(out[i]) \/ out[i] \in {"-", ",", "."}
         /\ WithinHalfUnit(out, args.value, args.places)
    /\ (args.value # 0 /\ Abs(args.value) > args.minimumValue) => out[1] # "<"
    /\ (args.value # 0 /\ args.minimumValue = 0) => out[1] # "<"

\* C7 witness: formatPercentage(0.005, 2, {minimumValue: 0.01}) has returned "<1%".
C7_Witness ==
  /\ Returned("formatPercentage")
  /\ args = [value |-> 500, places |-> 2, minimumValue |-> 1000]
  /\ out = <<"<", "1", "%">>

====
